---- MODULE Spec2Model ----
(***************************************************************************)
(* A model of src/Anglerandom.py: the LSystem class.                       *)
(*                                                                         *)
(* A Python string is a sequence of one-character strings; a "float" is an *)
(* integer number of tenths (Scale); an optional value (None or x) is the  *)
(* empty sequence or <<x>>.  mathutils vectors live in a heap of cells so  *)
(* that in-place updates (+=, rotate) and copies (.copy()) are told apart. *)
(* The heading only takes quarter turns in the model: angles are multiples *)
(* of 90 degrees, which keeps every rotation exact.                        *)
(***************************************************************************)
EXTENDS Integers, Sequences, FiniteSets, TLC

VARIABLES
    numIters, startStr, rules, step_length, default_angle, mesh_dict,
    random_seed,      \* the constructor's arguments, kept as attributes
    resultStrs,       \* self.resultStrs
    rng,              \* the state of the process-wide random module
    pc,               \* "generate" | "idle" | "draw"
    gi, oldStr,       \* generate(): loop counter i and local oldStr
    ri, index,        \* draw(): position in resultStrs (1-based) and index
    heap,             \* the mathutils.Vector objects of the running draw()
    location, direction, stack,   \* draw(): references into heap
    cmds,             \* what the running / last draw() asked of Blender
    result,           \* how the last draw() ended: "none" | "ok" | an exception
    last,             \* the instruction dispatched by the latest loop body
    restarts,         \* how often draw() set index back to 0 inside a string
    calls,            \* the calls made after the first construction, in order:
                      \* "draw", "generate", or "construct" for a new object
    streams           \* cmds of each finished "construct, then draw()" run

vars == <<numIters, startStr, rules, step_length, default_angle, mesh_dict,
          random_seed, resultStrs, rng, pc, gi, oldStr, ri, index, heap,
          location, direction, stack, cmds, result, last, restarts, calls,
          streams>>

inputs == <<numIters, startStr, rules, step_length, default_angle, mesh_dict,
            random_seed>>
drawLocals == <<ri, index, heap, location, direction, stack, cmds, result,
                last, restarts>>

-----------------------------------------------------------------------------
(* Bounds of the model *)

MaxIters == 3        \* numIters ranges over -1..MaxIters
MaxStart == 2        \* tokens in a start string
MaxRestarts == 1     \* restarts of a string that draw() may take (unbounded in the code)
MaxCalls == 3        \* calls made after the first construction
RngStates == 4       \* states of the random stream

Scale == 10          \* one unit of length or one degree, in tenths

None == <<>>
Some(x) == <<x>>

-----------------------------------------------------------------------------
(* Sequences as Python strings / lists *)

RECURSIVE Concat(_)
Concat(ss) == IF ss = <<>> THEN <<>> ELSE Head(ss) \o Concat(Tail(ss))

\* s[a:b] for 0 <= a, 0 <= b
PySlice(s, a, b) ==
    LET hi == IF b > Len(s) THEN Len(s) ELSE b
    IN  SubSeq(s, a + 1, hi)

\* s.find(ch, start) for start >= 0: 0-based, -1 when absent
Find(s, ch, start) ==
    LET hits == {i \in start..(Len(s) - 1) : s[i + 1] = ch}
    IN  IF hits = {} THEN -1
        ELSE CHOOSE i \in hits : \A j \in hits : i <= j

-----------------------------------------------------------------------------
(* LSystem.replace, replaceProcess *)

replaceDropsUnknown(char) ==
    IF char \in DOMAIN rules THEN rules[char] ELSE <<>>

replace(char) ==
    IF char \in DOMAIN rules THEN rules[char] ELSE <<char>>

replaceProcessFirstOnly(s) ==
    IF s = <<>> THEN <<>> ELSE replace(s[1]) \o Tail(s)

replaceProcess(s) ==
    Concat([k \in 1..Len(s) |-> replace(s[k])])

-----------------------------------------------------------------------------
(* Numbers: float(text) for text over the regex class [\d\.] *)

Digits == <<"0", "1", "2", "3", "4", "5", "6", "7", "8", "9">>
DigitSet == {Digits[k] : k \in 1..Len(Digits)}
DigitVal(c) == (CHOOSE k \in 1..Len(Digits) : Digits[k] = c) - 1

RECURSIVE IntVal(_)
IntVal(ds) ==
    IF ds = <<>> THEN 0
    ELSE IntVal(SubSeq(ds, 1, Len(ds) - 1)) * Len(Digits) + DigitVal(ds[Len(ds)])

\* float() accepts digits with at most one dot and at least one digit
\* ("1", "1.", ".5", "1.5"); "." or "1.2.3" raise ValueError.
FloatOk(text) ==
    /\ Cardinality({k \in 1..Len(text) : text[k] = "."}) <= 1
    /\ \E k \in 1..Len(text) : text[k] \in DigitSet

\* The value in tenths.  The model's floats carry one fractional digit.
FloatOf(text) ==
    LET dot == Find(text, ".", 0)
        whole == IF dot = -1 THEN text ELSE PySlice(text, 0, dot)
        frac == IF dot = -1 THEN <<>> ELSE PySlice(text, dot + 1, Len(text))
        tenth == CHOOSE t \in 0..9 :
                     /\ Len(frac) <= 1
                     /\ t = IF frac = <<>> THEN 0 ELSE DigitVal(frac[1])
    IN  IntVal(whole) * Scale + tenth

-----------------------------------------------------------------------------
(* The random module: one process-wide stream *)

\* random.seed(n) / random.seed(): the state after seeding
SeedIgnored(seed, entropy) == entropy

Seeded(seed, entropy) ==
    IF seed # None THEN seed[1] % RngStates ELSE entropy

\* random.random() is in [0, 1): 0 or 1/2 here, by the state's parity
RandomHalves(s) == s % 2
RandomNext(s) == (s + 1) % RngStates

\* random.uniform(a, b) = a + (b - a) * random()
UniformScaledByMax(a, b, s) == a + (b * RandomHalves(s)) \div 2

Uniform(a, b, s) == a + ((b - a) * RandomHalves(s)) \div 2

-----------------------------------------------------------------------------
(* LSystem.extract_value *)

Upper == {"A", "B", "C", "D", "E", "F", "G", "H", "I", "J", "K", "L", "M",
          "N", "O", "P", "Q", "R", "S", "T", "U", "V", "W", "X", "Y", "Z"}
Lower == {"a", "b", "c", "d", "e", "f", "g", "h", "i", "j", "k", "l", "m",
          "n", "o", "p", "q", "r", "s", "t", "u", "v", "w", "x", "y", "z"}
\* [A-Za-z\+\-\&\^<>\|]
SymbolClass == Upper \cup Lower \cup {"+", "-", "&", "^", "<", ">", "|"}
\* [\d\.]
NumClass == DigitSet \cup {"."}

IsNum(text) == text # <<>> /\ \A k \in 1..Len(text) : text[k] \in NumClass

\* re.match(...): the groups of the match at the start of instruction, if any.
\* The numerals hold no ")" so the ")" of the pattern is the first one.
Match(instruction) ==
    LET close == Find(instruction, ")", 0)
        inner == PySlice(instruction, 2, close)
        comma == Find(inner, ",", 0)
        g2 == IF comma = -1 THEN inner ELSE PySlice(inner, 0, comma)
        g3 == IF comma = -1 THEN <<>> ELSE PySlice(inner, comma + 1, Len(inner))
        ok == /\ Len(instruction) >= 4
              /\ instruction[1] \in SymbolClass
              /\ instruction[2] = "("
              /\ close >= 3
              /\ IsNum(g2)
              /\ comma # -1 => IsNum(g3)
    IN  [ok |-> ok, g1 |-> IF ok THEN <<instruction[1]>> ELSE <<>>,
         g2 |-> g2, g3 |-> g3]

\* extract_value(instruction) with the random stream in state s:
\* the pair returned, the stream's state afterwards, the exception raised.
extract_value(instruction, s) ==
    LET m == Match(instruction)
    IN  IF ~m.ok
        THEN [symbol |-> instruction, value |-> None, rng |-> s, err |-> "none"]
        ELSE IF m.g3 # <<>>
        THEN IF FloatOk(m.g2) /\ FloatOk(m.g3)
             THEN [symbol |-> m.g1,
                   value |-> Some(Uniform(FloatOf(m.g2), FloatOf(m.g3), s)),
                   rng |-> RandomNext(s), err |-> "none"]
             ELSE [symbol |-> m.g1, value |-> None, rng |-> s,
                   err |-> "ValueError"]
        ELSE IF FloatOk(m.g2)
             THEN [symbol |-> m.g1, value |-> Some(FloatOf(m.g2)), rng |-> s,
                   err |-> "none"]
             ELSE [symbol |-> m.g1, value |-> None, rng |-> s,
                   err |-> "ValueError"]

-----------------------------------------------------------------------------
(* mathutils vectors and quarter-turn rotations *)

VecAdd(u, v) == <<u[1] + v[1], u[2] + v[2], u[3] + v[3]>>
VecMul(u, k) == <<u[1] * k, u[2] * k, u[3] * k>>

Cos4 == <<1, 0, -1, 0>>
Sin4 == <<0, 1, 0, -1>>

\* The quarter turns of an angle given in tenths of a degree
QuarterTurns(angle) ==
    CHOOSE q \in 0..3 :
        /\ angle % (90 * Scale) = 0
        /\ q = (angle \div (90 * Scale)) % 4

\* Vector.rotate(Euler(e, 'XYZ')) for an Euler triple with one axis set:
\* axis 1 = X, 2 = Y, 3 = Z, by q quarter turns
Rotate(v, axis, q) ==
    LET c == Cos4[q + 1]
        s == Sin4[q + 1]
    IN  CASE axis = 1 -> <<v[1], v[2] * c - v[3] * s, v[2] * s + v[3] * c>>
          [] axis = 2 -> <<v[1] * c + v[3] * s, v[2], v[3] * c - v[1] * s>>
          [] axis = 3 -> <<v[1] * c - v[2] * s, v[1] * s + v[2] * c, v[3]>>

\* rotate_direction: the heading after symbol with parameter value
rotate_directionBarTakesAngle(symbol, v, value) ==
    LET angle == IF value # None THEN value[1] ELSE default_angle
    IN  CASE symbol = <<"+">> -> Rotate(v, 3, QuarterTurns(angle))
          [] symbol = <<"-">> -> Rotate(v, 3, QuarterTurns(0 - angle))
          [] symbol = <<"&">> -> Rotate(v, 1, QuarterTurns(angle))
          [] symbol = <<"^">> -> Rotate(v, 1, QuarterTurns(0 - angle))
          [] symbol = <<"<">> -> Rotate(v, 2, QuarterTurns(angle))
          [] symbol = <<">">> -> Rotate(v, 2, QuarterTurns(0 - angle))
          [] symbol = <<"|">> -> Rotate(v, 3, QuarterTurns(angle))
          [] OTHER -> v

rotate_directionUnknownTurns(symbol, v, value) ==
    LET angle == IF value # None THEN value[1] ELSE default_angle
    IN  CASE symbol = <<"-">> -> Rotate(v, 3, QuarterTurns(0 - angle))
          [] symbol = <<"&">> -> Rotate(v, 1, QuarterTurns(angle))
          [] symbol = <<"^">> -> Rotate(v, 1, QuarterTurns(0 - angle))
          [] symbol = <<"<">> -> Rotate(v, 2, QuarterTurns(angle))
          [] symbol = <<">">> -> Rotate(v, 2, QuarterTurns(0 - angle))
          [] symbol = <<"|">> -> Rotate(v, 3, 2)
          [] OTHER -> Rotate(v, 3, QuarterTurns(angle))

rotate_direction(symbol, v, value) ==
    LET angle == IF value # None THEN value[1] ELSE default_angle
    IN  CASE symbol = <<"+">> -> Rotate(v, 3, QuarterTurns(angle))
          [] symbol = <<"-">> -> Rotate(v, 3, QuarterTurns(0 - angle))
          [] symbol = <<"&">> -> Rotate(v, 1, QuarterTurns(angle))
          [] symbol = <<"^">> -> Rotate(v, 1, QuarterTurns(0 - angle))
          [] symbol = <<"<">> -> Rotate(v, 2, QuarterTurns(angle))
          [] symbol = <<">">> -> Rotate(v, 2, QuarterTurns(0 - angle))
          [] symbol = <<"|">> -> Rotate(v, 3, 2)
          [] OTHER -> v

-----------------------------------------------------------------------------
(* Inputs *)

RECURSIVE TokenStrings(_, _)
\* The strings made of at most n of the tokens T
TokenStrings(T, n) ==
    IF n = 0 THEN {<<>>}
    ELSE LET shorter == TokenStrings(T, n - 1)
         IN  shorter \cup {s \o t : s \in shorter, t \in T}

NoRules == [c \in {} |-> <<>>]
\* the rules of the spec's scenario: A -> AB, B -> A
AlgaeRules == ("A" :> <<"A", "B">>) @@ ("B" :> <<"A">>)
\* a branching rule in the style of the script's: A -> [+FA]f
BranchRules == ("A" :> <<"[", "+", "F", "A", "]", "f">>)
\* rules that rewrite a turtle symbol: [ -> f], A -> F(1,3)P
CloseRules == ("[" :> <<"f", "]">>)
              @@ ("A" :> <<"F", "(", "1", ",", "3", ")", "P">>)
RuleSets == {NoRules, AlgaeRules, BranchRules, CloseRules}

GrammarTokens == {<<"A">>, <<"B">>, <<"F">>, <<"[">>, <<"+">>}

NoInstruction == [symbol |-> <<>>, value |-> None, kind |-> "none"]

\* The state when __init__ has stored its arguments, seeded the random
\* module and entered generate() (lines 9-24 and 29).
Constructed(ni, ss, rs, md, sd, entropy) ==
    /\ numIters = ni
    /\ startStr = ss
    /\ rules = rs
    /\ step_length = 1 * Scale
    /\ default_angle = 90 * Scale
    /\ mesh_dict = md
    /\ random_seed = sd
    /\ resultStrs = <<ss>>
    /\ rng = Seeded(sd, entropy)
    /\ pc = "generate"
    /\ gi = 0
    /\ oldStr = ss
    /\ ri = 0
    /\ index = 0
    /\ heap = <<>>
    /\ location = 0
    /\ direction = 0
    /\ stack = <<>>
    /\ cmds = <<>>
    /\ result = "none"
    /\ last = NoInstruction
    /\ restarts = 0
    /\ calls = <<>>
    /\ streams = <<>>

NoMeshes == [k \in {} |-> "none"]

InitGrammar ==
    \E ni \in -1..MaxIters, ss \in TokenStrings(GrammarTokens, MaxStart),
       rs \in RuleSets :
        Constructed(ni, ss, rs, NoMeshes, None, 0)

-----------------------------------------------------------------------------
(* LSystem.generate *)

\* range(self.numIters)
IterationsOneShort == numIters - 1

Iterations == numIters

\* one turn of the loop of generate()
GenerateStepDrawing ==
    /\ pc = "generate"
    /\ gi < Iterations
    /\ oldStr' = replaceProcess(oldStr)
    /\ resultStrs' = Append(resultStrs, oldStr')
    /\ gi' = gi + 1
    /\ rng' = RandomNext(rng)
    /\ UNCHANGED <<inputs, pc, drawLocals, calls, streams>>

GenerateStep ==
    /\ pc = "generate"
    /\ gi < Iterations
    /\ oldStr' = replaceProcess(oldStr)
    /\ resultStrs' = Append(resultStrs, oldStr')
    /\ gi' = gi + 1
    /\ UNCHANGED <<inputs, rng, pc, drawLocals, calls, streams>>

\* the loop is over: generate() returns
GenerateReturn ==
    /\ pc = "generate"
    /\ gi >= Iterations
    /\ pc' = "idle"
    /\ UNCHANGED <<inputs, resultStrs, rng, gi, oldStr, drawLocals, calls, streams>>

NextGrammar == GenerateStep \/ GenerateReturn

SpecGrammar == InitGrammar /\ [][NextGrammar]_vars

-----------------------------------------------------------------------------
(* LSystem.draw *)

Sphere(at) == [op |-> "sphere", symbol |-> <<>>, a |-> at, b |-> <<>>]
Line(start, end) == [op |-> "line", symbol |-> <<>>, a |-> start, b |-> end]
Instance(symbol, at, rot) == [op |-> "instance", symbol |-> symbol, a |-> at, b |-> rot]

\* Lines 98-103: the instruction text at index of rule, and index afterwards
Fetch(rule, i) ==
    LET paren == i + 2 < Len(rule) /\ rule[i + 2] = "("
        end_index == Find(rule, ")", i)
    IN  [instruction |-> IF paren THEN PySlice(rule, i, end_index + 1)
                         ELSE <<rule[i + 1]>>,
         index |-> IF paren THEN end_index ELSE i]

\* The if / elif chain of lines 106-121
DispatchMotionFirst(symbol) ==
    CASE symbol = <<"F">> -> "F"
      [] symbol = <<"f">> -> "f"
      [] symbol \in DOMAIN mesh_dict -> "instance"
      [] symbol = <<"[">> -> "push"
      [] symbol = <<"]">> -> "pop"
      [] OTHER -> "rotate"

Dispatch(symbol) ==
    CASE symbol \in DOMAIN mesh_dict -> "instance"
      [] symbol = <<"F">> -> "F"
      [] symbol = <<"f">> -> "f"
      [] symbol = <<"[">> -> "push"
      [] symbol = <<"]">> -> "pop"
      [] OTHER -> "rotate"

\* step = value if value is not None else self.step_length
StepOrDefault(value) ==
    IF value # None /\ value[1] # 0 THEN value[1] ELSE step_length

Step(value) ==
    IF value # None THEN value[1] ELSE step_length

\* location, direction = stack.pop()
PopIgnoringEmpty(stk) ==
    IF stk = <<>>
    THEN [err |-> "none", stack |-> stk, location |-> location,
          direction |-> direction]
    ELSE [err |-> "none", stack |-> SubSeq(stk, 1, Len(stk) - 1),
          location |-> stk[Len(stk)][1], direction |-> stk[Len(stk)][2]]

Pop(stk) ==
    IF stk = <<>>
    THEN [err |-> "IndexError", stack |-> stk, location |-> location,
          direction |-> direction]
    ELSE [err |-> "none", stack |-> SubSeq(stk, 1, Len(stk) - 1),
          location |-> stk[Len(stk)][1], direction |-> stk[Len(stk)][2]]

\* What the for loop carries into the next string: only index is set anew
FreshStackPerString(stk) == <<>>

CarriedStack(stk) == stk

\* draw() is called: lines 88-96, up to the first test of the while loop
DrawBeginKeeping ==
    /\ pc = "idle"
    /\ Len(calls) < MaxCalls
    /\ calls' = Append(calls, "draw")
    /\ pc' = "draw"
    /\ heap' = IF heap = <<>> THEN << <<0, 1, 0>>, <<0, 0, 0>> >> ELSE heap
    /\ direction' = IF heap = <<>> THEN 1 ELSE direction
    /\ location' = IF heap = <<>> THEN 2 ELSE location
    /\ stack' = stack
    /\ cmds' = <<Sphere(<<0, 0, 0>>)>>
    /\ ri' = 1
    /\ index' = 0
    /\ result' = "running"
    /\ last' = NoInstruction
    /\ restarts' = 0
    /\ UNCHANGED <<inputs, resultStrs, rng, gi, oldStr, streams>>

DrawBegin ==
    /\ pc = "idle"
    /\ Len(calls) < MaxCalls
    /\ calls' = Append(calls, "draw")
    /\ pc' = "draw"
    /\ heap' = << <<0, 1, 0>>, <<0, 0, 0>> >>
    /\ direction' = 1
    /\ location' = 2
    /\ stack' = <<>>
    /\ cmds' = <<Sphere(<<0, 0, 0>>)>>
    /\ ri' = 1
    /\ index' = 0
    /\ result' = "running"
    /\ last' = NoInstruction
    /\ restarts' = 0
    /\ UNCHANGED <<inputs, resultStrs, rng, gi, oldStr, streams>>

Rule == resultStrs[ri]
InLoopBody == pc = "draw" /\ index < Len(Rule)
Cur == Fetch(Rule, index)
Ev == extract_value(Cur.instruction, rng)
Restarting == Cur.index = -1

\* Lines 98-105 and 122 of one turn of the while loop, for the branch kind
Turn(kind) ==
    /\ InLoopBody
    /\ Restarting => restarts < MaxRestarts
    /\ Ev.err = "none"
    /\ Dispatch(Ev.symbol) = kind
    /\ index' = Cur.index + 1
    /\ restarts' = IF Restarting THEN restarts + 1 ELSE restarts
    /\ last' = [symbol |-> Ev.symbol, value |-> Ev.value, kind |-> kind]
    /\ UNCHANGED <<inputs, resultStrs, gi, oldStr, ri, calls>>

\* The calls made on the present object
ObjectCalls ==
    LET made == {k \in 1..Len(calls) : calls[k] = "construct"}
        from == IF made = {} THEN 0 ELSE CHOOSE k \in made : \A j \in made : j <= k
    IN  SubSeq(calls, from + 1, Len(calls))

\* The pass is over, by return or by an exception
Ended(how, stream) ==
    /\ pc' = "idle"
    /\ result' = how
    /\ streams' = IF ObjectCalls = <<"draw">> THEN Append(streams, stream)
                  ELSE streams

\* line 107: add_mesh_instance draws three angles in [0, 2 pi), kept in units of pi
DrawInstance ==
    /\ Turn("instance")
    /\ LET s1 == Ev.rng
           s2 == RandomNext(s1)
           s3 == RandomNext(s2)
       IN  /\ cmds' = Append(cmds, Instance(Ev.symbol, heap[location],
                         <<RandomHalves(s1), RandomHalves(s2), RandomHalves(s3)>>))
           /\ rng' = RandomNext(s3)
    /\ UNCHANGED <<pc, heap, location, direction, stack, result, streams>>

\* lines 109-112: F makes a new vector, draws the edge and moves there
DrawForward ==
    /\ Turn("F")
    /\ LET new_location == VecAdd(heap[location], VecMul(heap[direction], Step(Ev.value)))
       IN  /\ heap' = Append(heap, new_location)
           /\ cmds' = Append(cmds, Line(heap[location], new_location))
           /\ location' = Len(heap) + 1
    /\ rng' = Ev.rng
    /\ UNCHANGED <<pc, direction, stack, result, streams>>

\* lines 114-115: f moves the vector location refers to, in place
DrawMove ==
    /\ Turn("f")
    /\ heap' = [heap EXCEPT ![location] =
                    VecAdd(heap[location], VecMul(heap[direction], Step(Ev.value)))]
    /\ rng' = Ev.rng
    /\ UNCHANGED <<pc, location, direction, stack, cmds, result, streams>>

\* (location.copy(), direction.copy()): two new vectors and the pair that
\* refers to them
SnapshotByReference(h, loc, dir) == [heap |-> h, entry |-> <<loc, dir>>]

Snapshot(h, loc, dir) ==
    [heap |-> h \o <<h[loc], h[dir]>>, entry |-> <<Len(h) + 1, Len(h) + 2>>]

\* line 117: [ pushes copies of both vectors
DrawPush ==
    /\ Turn("push")
    /\ heap' = Snapshot(heap, location, direction).heap
    /\ stack' = Append(stack, Snapshot(heap, location, direction).entry)
    /\ rng' = Ev.rng
    /\ UNCHANGED <<pc, location, direction, cmds, result, streams>>

\* line 119: ] pops; an empty stack raises IndexError out of draw()
DrawPop ==
    /\ InLoopBody
    /\ Restarting => restarts < MaxRestarts
    /\ Ev.err = "none"
    /\ Dispatch(Ev.symbol) = "pop"
    /\ LET p == Pop(stack)
       IN  IF p.err = "none"
           THEN /\ stack' = p.stack
                /\ location' = p.location
                /\ direction' = p.direction
                /\ index' = Cur.index + 1
                /\ restarts' = IF Restarting THEN restarts + 1 ELSE restarts
                /\ UNCHANGED <<pc, result, streams>>
           ELSE /\ Ended(p.err, cmds)
                /\ UNCHANGED <<stack, location, direction, index, restarts>>
    /\ last' = [symbol |-> Ev.symbol, value |-> Ev.value, kind |-> "pop"]
    /\ rng' = Ev.rng
    /\ UNCHANGED <<inputs, resultStrs, gi, oldStr, ri, calls, heap, cmds>>

\* line 121: anything else goes to rotate_direction, which turns the vector
\* direction refers to in place, or leaves it alone
DrawRotate ==
    /\ Turn("rotate")
    /\ heap' = [heap EXCEPT ![direction] =
                    rotate_direction(Ev.symbol, heap[direction], Ev.value)]
    /\ rng' = Ev.rng
    /\ UNCHANGED <<pc, location, direction, stack, cmds, result, streams>>

\* lines 50, 51, 55: float() raises ValueError out of draw()
DrawValueError ==
    /\ InLoopBody
    /\ Ev.err # "none"
    /\ Ended(Ev.err, cmds)
    /\ last' = [symbol |-> Ev.symbol, value |-> None, kind |-> "error"]
    /\ UNCHANGED <<inputs, resultStrs, rng, gi, oldStr, ri, index, heap, location,
                   direction, stack, cmds, restarts, calls>>

\* lines 95-97: the while loop is over, the for loop takes the next string
DrawNextRuleConsuming ==
    /\ pc = "draw"
    /\ index >= Len(Rule)
    /\ ri < Len(resultStrs)
    /\ resultStrs' = Tail(resultStrs)
    /\ ri' = ri
    /\ index' = 0
    /\ stack' = CarriedStack(stack)
    /\ UNCHANGED <<inputs, rng, pc, gi, oldStr, heap, location,
                   direction, cmds, result, last, restarts, calls, streams>>

DrawNextRule ==
    /\ pc = "draw"
    /\ index >= Len(Rule)
    /\ ri < Len(resultStrs)
    /\ ri' = ri + 1
    /\ index' = 0
    /\ stack' = CarriedStack(stack)
    /\ UNCHANGED <<inputs, resultStrs, rng, pc, gi, oldStr, heap, location,
                   direction, cmds, result, last, restarts, calls, streams>>

\* the for loop is over: draw() returns
DrawReturn ==
    /\ pc = "draw"
    /\ index >= Len(Rule)
    /\ ri = Len(resultStrs)
    /\ Ended("ok", cmds)
    /\ UNCHANGED <<inputs, resultStrs, rng, gi, oldStr, ri, index, heap, location,
                   direction, stack, cmds, last, restarts, calls>>

DrawStep ==
    \/ DrawInstance
    \/ DrawForward
    \/ DrawMove
    \/ DrawPush
    \/ DrawPop
    \/ DrawRotate
    \/ DrawValueError
    \/ DrawNextRule
    \/ DrawReturn

-----------------------------------------------------------------------------
(* One object, one drawing pass *)

MaxDrawIters == 1    \* numIters ranges over 0..MaxDrawIters in a drawing pass

DrawTokens ==
    { <<"F">>, <<"f">>, <<"[">>, <<"]">>, <<"+">>, <<"P">>, <<"(">>,
      <<"F", "(", "0", ")">>, <<"F", "(", "2", ",", "4", ")">>,
      <<"F", "(", "1">>, <<"[", "(", "1", ")">>, <<"f", "(", ".", ")">> }

MeshP == (<<"P">> :> "core")
MeshTurtle == (<<"F">> :> "core") @@ (<<"[">> :> "leaf") @@ (<<"]">> :> "leaf")
MeshDicts == {NoMeshes, MeshP, MeshTurtle}

Init ==
    \E ni \in 0..MaxDrawIters, ss \in TokenStrings(DrawTokens, MaxStart),
       rs \in {NoRules, CloseRules}, md \in MeshDicts, sd \in {Some(0), Some(1)} :
        Constructed(ni, ss, rs, md, sd, 0)

FirstDraw == calls = <<>> /\ DrawBegin

Next == GenerateStep \/ GenerateReturn \/ FirstDraw \/ DrawStep

Spec == Init /\ [][Next]_vars

-----------------------------------------------------------------------------
(* Several calls, several objects in one process *)

\* generate() is called again on the constructed object: line 29
CallGenerate ==
    /\ pc = "idle"
    /\ Len(calls) < MaxCalls
    /\ calls' = Append(calls, "generate")
    /\ pc' = "generate"
    /\ gi' = 0
    /\ oldStr' = startStr
    /\ UNCHANGED <<inputs, resultStrs, rng, drawLocals, streams>>

\* LSystem(...) is called again with the same arguments: lines 9-24 and 29.
\* It seeds the process-wide random module anew.
Construct ==
    /\ pc = "idle"
    /\ Len(calls) < MaxCalls
    /\ calls' = Append(calls, "construct")
    /\ \E entropy \in 0..(RngStates - 1) : rng' = Seeded(random_seed, entropy)
    /\ resultStrs' = <<startStr>>
    /\ pc' = "generate"
    /\ gi' = 0
    /\ oldStr' = startStr
    /\ UNCHANGED <<inputs, drawLocals, streams>>

RunStarts ==
    { <<"P", "[", "F", "(", "2", ",", "4", ")">>, <<"[", "F", "A", "]", "]">>,
      <<"A", "[", "f", "(", ".", ")">>, <<"A", "F", "(", "1", ",", "3", ")">> }

\* A start string whose passes end with entries on the stack
OpenStart == <<"[", "F">>

InitRuns ==
    \E sd \in {None, Some(0), Some(1)}, entropy \in 0..(RngStates - 1) :
        \/ \E ss \in RunStarts : Constructed(1, ss, CloseRules, MeshP, sd, entropy)
        \/ Constructed(1, OpenStart, NoRules, MeshP, sd, entropy)

NextRuns ==
    \/ GenerateStep
    \/ GenerateReturn
    \/ CallGenerate
    \/ Construct
    \/ DrawBegin
    \/ DrawStep

SpecRuns == InitRuns /\ [][NextRuns]_vars

-----------------------------------------------------------------------------
(* One drawing pass over rotations and ranged parameters, from every state of
   the random stream *)

TurtleTokens ==
    { <<"+">>, <<"-">>, <<"&">>, <<"^">>, <<"<">>, <<">">>, <<"|">>,
      <<"+", "(", "2", "7", "0", ")">>, <<"-", "(", "2", "7", "0", ")">>,
      <<"&", "(", "1", "8", "0", ")">>, <<"^", "(", "1", "8", "0", ")">>,
      <<"<", "(", "2", "7", "0", ")">>, <<">", "(", "2", "7", "0", ")">>,
      <<"|", "(", "9", "0", ")">>,
      <<"F", "(", "2", ",", "2", ")">>,
      <<"+", "(", "9", "0", ",", "9", "0", ")">>,
      <<"+", "(", "0", ")">> }

MeshPlus == (<<"+">> :> "leaf")

InitTurtle ==
    \E ss \in TokenStrings(TurtleTokens, MaxStart), md \in {NoMeshes, MeshPlus},
       entropy \in 0..(RngStates - 1) :
        Constructed(0, ss, NoRules, md, None, entropy)

NextTurtle ==
    \/ GenerateReturn
    \/ FirstDraw
    \/ DrawInstance
    \/ DrawForward
    \/ DrawRotate
    \/ DrawReturn

SpecTurtle == InitTurtle /\ [][NextTurtle]_vars

-----------------------------------------------------------------------------
(* Claims about the grammar *)

IsKey(c) == c \in DOMAIN rules

RECURSIVE Rewritten(_)
\* The string got from s by rewriting its symbols one by one, left to right
Rewritten(s) ==
    IF s = <<>> THEN <<>>
    ELSE (IF IsKey(Head(s)) THEN rules[Head(s)] ELSE <<Head(s)>>)
         \o Rewritten(Tail(s))

RECURSIVE IsSubsequence(_, _)
\* s can be got from t by deleting symbols of t
IsSubsequence(s, t) ==
    IF s = <<>> THEN TRUE
    ELSE IF t = <<>> THEN FALSE
    ELSE IF Head(s) = Head(t) THEN IsSubsequence(Tail(s), Tail(t))
    ELSE IsSubsequence(s, Tail(t))

NotKey(c) == ~IsKey(c)

\* The object is constructed and generate() was not called on it again
FreshlyConstructed ==
    pc = "idle" /\ \A k \in 1..Len(ObjectCalls) : ObjectCalls[k] = "draw"

\* C1: after construction with numIters >= 0, resultStrs has numIters + 1
\* entries, the first is the start string and each later one is the entry
\* before it rewritten once, symbol by symbol, left to right; the rules
\* A -> AB, B -> A from "A" with numIters = 3 give A, AB, ABA, ABAAB.
C1_ProductionSequence ==
    (FreshlyConstructed /\ numIters >= 0) =>
        /\ Len(resultStrs) = numIters + 1
        /\ resultStrs[1] = startStr
        /\ \A k \in 2..Len(resultStrs) : resultStrs[k] = Rewritten(resultStrs[k - 1])
        /\ (rules = AlgaeRules /\ startStr = <<"A">> /\ numIters = 3) =>
               resultStrs = << <<"A">>, <<"A", "B">>, <<"A", "B", "A">>,
                               <<"A", "B", "A", "A", "B">> >>

C1_Witness ==
    /\ FreshlyConstructed
    /\ rules = AlgaeRules
    /\ startStr = <<"A">>
    /\ numIters = 3
    /\ Len(resultStrs) = 4

\* C2: in every generation after the first, the symbols of the generation
\* before that are no key of the rules are all still there, unchanged and
\* in the same order.
C2_IdentityRule ==
    \A k \in 2..Len(resultStrs) :
        IsSubsequence(SelectSeq(resultStrs[k - 1], NotKey),
                      SelectSeq(resultStrs[k], NotKey))

C2_Witness ==
    /\ pc = "idle"
    /\ Len(resultStrs) >= 3
    /\ rules = BranchRules
    /\ \E k \in 1..Len(startStr) : startStr[k] = "A"
    /\ \E k \in 1..Len(startStr) : startStr[k] = "F"

\* C6: construction with numIters < 0 fails: no object with a
\* ProductionSequence comes out of it.
C6_NegativeItersRejected ==
    ~(numIters < 0 /\ pc = "idle" /\ Len(resultStrs) >= 1)

-----------------------------------------------------------------------------
(* Claims about the drawing pass *)

Position == heap[location]
Heading == heap[direction]
\* The BranchStack by value
BranchStack == [k \in 1..Len(stack) |-> <<heap[stack[k][1]], heap[stack[k][2]]>>]

\* The loop body is about to interpret an instruction with this symbol
About(symbol) ==
    /\ InLoopBody
    /\ Ev.err = "none"
    /\ Ev.symbol = symbol

Aborted(err) == pc' = "idle" /\ result' = err /\ cmds' = cmds

OnlyMarker == cmds = <<Sphere(<<0, 0, 0>>)>>

\* C3 as claimed: a ] instruction met with an empty BranchStack ends the
\* pass with an error at that instruction and emits nothing more.
C3_PopOnEmptyFails ==
    [][(About(<<"]">>) /\ stack = <<>>) => Aborted("IndexError")]_vars

\* C3, amended: a ] instruction that is no key of the InstanceRegistry, met
\* with an empty BranchStack, ends the pass with an error (IndexError) at
\* that instruction: nothing more is interpreted or emitted.  The string "]"
\* alone ends so with no line and no instance emitted.
C3_PopOnEmptyFailsUnlessInstance ==
    /\ [][(About(<<"]">>) /\ <<"]">> \notin DOMAIN mesh_dict /\ stack = <<>>)
            => Aborted("IndexError")]_vars
    /\ [](result = "IndexError" => pc = "idle" /\ last.symbol = <<"]">>)
    /\ []((startStr = <<"]">> /\ <<"]">> \notin DOMAIN mesh_dict
           /\ result \notin {"none", "running"})
            => (result = "IndexError" /\ OnlyMarker))

C3_Witness ==
    /\ result = "IndexError"
    /\ last.symbol = <<"]">>
    /\ <<"]">> \notin DOMAIN mesh_dict
    /\ ri < Len(resultStrs)
    /\ Len(cmds) > 1

\* A symbol of s is followed at once by a "(" that no later ")" closes
HasUnterminated(s) ==
    \E k \in 2..Len(s) : s[k] = "(" /\ Find(s, ")", k) = -1

\* C4: a pass over a generation string with an unterminated "(" after a
\* symbol fails with an error: it neither returns normally nor goes on
\* interpreting the string.
C4_UnterminatedFails ==
    /\ result = "ok" => \A k \in 1..Len(resultStrs) : ~HasUnterminated(resultStrs[k])
    /\ restarts = 0

RECURSIVE Depths(_, _)
\* The nesting depths after each symbol of s, starting from depth d
Depths(s, d) ==
    IF s = <<>> THEN <<>>
    ELSE LET e == CASE Head(s) = "[" -> d + 1
                    [] Head(s) = "]" -> d - 1
                    [] OTHER -> d
         IN  <<e>> \o Depths(Tail(s), e)

\* [ and ] are equal in number and validly nested in s
Balanced(s) ==
    LET ds == Depths(s, 0)
    IN  /\ \A k \in 1..Len(ds) : ds[k] >= 0
        /\ s # <<>> => ds[Len(ds)] = 0

\* C5: a string with balanced brackets, interpreted from an empty
\* BranchStack, raises no unbalanced-branch error (checked for generation 0
\* with no bracket in the InstanceRegistry).
C5_BalancedNeverFails ==
    (/\ result = "IndexError"
     /\ ri = 1
     /\ <<"[">> \notin DOMAIN mesh_dict
     /\ <<"]">> \notin DOMAIN mesh_dict)
        => ~Balanced(resultStrs[1])

\* C7: with an explicit seed, every run "construct the LSystem, then draw()"
\* with the same arguments emits the same commands, the values of ranged
\* parameters and the rotations of the instances included.
C7_SeededRunsAgree ==
    random_seed # None =>
        \A i, j \in 1..Len(streams) : streams[i] = streams[j]

C7_Witness ==
    /\ random_seed # None
    /\ Len(streams) = 2
    /\ \E k \in 1..Len(streams[2]) : streams[2][k].op = "instance"
    /\ \E k \in 1..Len(streams[2]) :
           streams[2][k].op = "line" /\ streams[2][k].b # <<0, 2 * Scale, 0>>

MovedBy(value) ==
    VecAdd(Position, VecMul(Heading, IF value # None THEN value[1] ELSE step_length))

\* C8: F, when no key of the InstanceRegistry, emits one line from the
\* position to position + heading * step and moves there; f moves the same
\* way and emits nothing; step is the parameter if there is one (0
\* included), else step_length; heading and BranchStack stay as they are.
C8_ForwardMoves ==
    /\ [][(About(<<"F">>) /\ <<"F">> \notin DOMAIN mesh_dict) =>
             /\ cmds' = Append(cmds, Line(Position, MovedBy(Ev.value)))
             /\ Position' = MovedBy(Ev.value)
             /\ Heading' = Heading
             /\ BranchStack' = BranchStack]_vars
    /\ [][(About(<<"f">>) /\ <<"f">> \notin DOMAIN mesh_dict) =>
             /\ cmds' = cmds
             /\ Position' = MovedBy(Ev.value)
             /\ Heading' = Heading
             /\ BranchStack' = BranchStack]_vars

C8_Witness ==
    /\ last = [symbol |-> <<"F">>, value |-> Some(0), kind |-> "F"]
    /\ Len(stack) > 0
    /\ cmds[Len(cmds)].op = "line"

\* C9: a symbol that is a key of the InstanceRegistry, F, [ and ] included,
\* emits exactly one instance placement at the position and leaves
\* position, heading and BranchStack as they are.
C9_InstanceOnly ==
    [][(InLoopBody /\ Ev.err = "none" /\ Ev.symbol \in DOMAIN mesh_dict) =>
          /\ Len(cmds') = Len(cmds) + 1
          /\ SubSeq(cmds', 1, Len(cmds)) = cmds
          /\ cmds'[Len(cmds')].op = "instance"
          /\ cmds'[Len(cmds')].symbol = Ev.symbol
          /\ cmds'[Len(cmds')].a = Position
          /\ Position' = Position
          /\ Heading' = Heading
          /\ BranchStack' = BranchStack
          /\ pc' = "draw"]_vars

C9_Witness ==
    /\ last.kind = "instance"
    /\ last.symbol = <<"]">>
    /\ stack = <<>>
    /\ \E k \in 1..Len(cmds) : cmds[k].op = "instance" /\ cmds[k].symbol = <<"F">>

\* C10: a pass takes the strings of resultStrs in order, each once
\* (generations 0..numIters of a newly constructed object); position,
\* heading and BranchStack at the start of a string are those at the end of
\* the string before; the start marker is emitted once, before all else.
C10_GenerationsInOrder ==
    /\ [][(pc = "draw" /\ pc' = "draw" /\ ri' # ri) =>
             /\ ri' = ri + 1
             /\ index >= Len(Rule)
             /\ index' = 0
             /\ Position' = Position
             /\ Heading' = Heading
             /\ BranchStack' = BranchStack
             /\ cmds' = cmds]_vars
    /\ [][(pc = "idle" /\ pc' = "draw") => (ri' = 1 /\ index' = 0 /\ stack' = <<>>)]_vars
    /\ [](result = "ok" =>
             /\ ri = Len(resultStrs)
             /\ (numIters >= 0 /\ FreshlyConstructed) => ri = numIters + 1)
    /\ [](result # "none" =>
             /\ cmds[1].op = "sphere"
             /\ \A k \in 2..Len(cmds) : cmds[k].op # "sphere")

C10_Witness ==
    /\ result = "ok"
    /\ rules = CloseRules
    /\ startStr = <<"[">>
    /\ numIters = 1
    /\ ri = 2
    /\ last.kind = "pop"
    /\ stack = <<>>

-----------------------------------------------------------------------------
(* Claims about parsing *)

\* The text is symbol(a,b) with numerals of equal value
EqualBounds(text) ==
    LET m == Match(text)
    IN  /\ m.ok
        /\ m.g3 # <<>>
        /\ FloatOk(m.g2) /\ FloatOk(m.g3)
        /\ FloatOf(m.g2) = FloatOf(m.g3)

\* C11: a ranged parameter with equal bounds resolves to exactly that value
\* in every state of the random stream: symbol(2,2) parses to (symbol, 2.0),
\* and a pass over "F(2,2)" draws one line of length 2.
C11_EqualBoundsExact ==
    /\ (InLoopBody /\ EqualBounds(Cur.instruction)) =>
           /\ Ev.err = "none"
           /\ Ev.symbol = <<Cur.instruction[1]>>
           /\ Ev.value = Some(FloatOf(Match(Cur.instruction).g2))
    /\ \A s \in 0..(RngStates - 1) :
           LET e == extract_value(<<"F", "(", "2", ",", "2", ")">>, s)
           IN  e.symbol = <<"F">> /\ e.value = Some(2 * Scale) /\ e.err = "none"
    /\ (result = "ok" /\ startStr = <<"F", "(", "2", ",", "2", ")">>) =>
           cmds = <<Sphere(<<0, 0, 0>>),
                    Line(<<0, 0, 0>>, <<0, 2 * Scale, 0>>)>>

\* The pass over "F(2,2)" is over and random() gave 1/2 for the parameter
C11_Witness ==
    /\ result = "ok"
    /\ startStr = <<"F", "(", "2", ",", "2", ")">>
    /\ rng = 2
    /\ last = [symbol |-> <<"F">>, value |-> Some(2 * Scale), kind |-> "F"]

-----------------------------------------------------------------------------
(* Claims about several calls on one object *)

\* Only draw() was called on the present object since it was constructed
OnlyDrawn ==
    /\ pc \in {"idle", "draw"}
    /\ \A k \in 1..Len(ObjectCalls) : ObjectCalls[k] = "draw"

\* C12: no step of a drawing pass, be it the last of a pass that returns or
\* of one that an exception ends, changes resultStrs, rules, startStr or the
\* defaults; so in every pass on an object on which only draw() was called
\* resultStrs is the sequence made at construction.
C12_DrawLeavesGrammar ==
    /\ [][(pc = "draw" \/ pc' = "draw") =>
             (resultStrs' = resultStrs /\ inputs' = inputs)]_vars
    /\ []((OnlyDrawn /\ numIters >= 0) =>
             /\ Len(resultStrs) = numIters + 1
             /\ resultStrs[1] = startStr
             /\ \A k \in 2..Len(resultStrs) :
                    resultStrs[k] = Rewritten(resultStrs[k - 1]))

\* A second pass, after one that IndexError ended, is at the same place
C12_Witness ==
    /\ calls = <<"draw", "draw">>
    /\ startStr = <<"[", "F", "A", "]", "]">>
    /\ pc = "draw"
    /\ ri = 1
    /\ index = 4
    /\ last.kind = "pop"

-----------------------------------------------------------------------------
(* Claims about the loop of a drawing pass *)

\* C13: every drawing pass terminates; within one generation string the
\* index is greater after every step than before it, so no instruction is
\* interpreted twice in one traversal and finitely many commands are emitted.
C13_IndexIncreases ==
    [][(pc = "draw" /\ pc' = "draw" /\ ri' = ri) => index' > index]_vars

\* The text is c(v): one character, then a numeral float() accepts in
\* parentheses
ParameterText(text) ==
    /\ Len(text) >= 4
    /\ text[2] = "("
    /\ Find(text, ")", 0) = Len(text) - 1
    /\ IsNum(PySlice(text, 2, Len(text) - 1))
    /\ FloatOk(PySlice(text, 2, Len(text) - 1))

\* C14: for every character c, brackets, digits and punctuation included,
\* and every numeral v, the text c(v) parses to the one instruction (c, v).
C14_AnyCharacterParameter ==
    (InLoopBody /\ ParameterText(Cur.instruction)) =>
        /\ Ev.symbol = <<Cur.instruction[1]>>
        /\ Ev.value = Some(FloatOf(PySlice(Cur.instruction, 2,
                                           Len(Cur.instruction) - 1)))

\* The symbols draw() and rotate_direction know
TurtleSymbols ==
    { <<"F">>, <<"f">>, <<"[">>, <<"]">>, <<"+">>, <<"-">>, <<"&">>, <<"^">>,
      <<"<">>, <<">">>, <<"|">> }

\* The loop body is about to interpret an instruction with a symbol that is
\* no key of the InstanceRegistry and none of F f [ ] + - & ^ < > |
AboutUnknown ==
    /\ InLoopBody
    /\ Ev.err = "none"
    /\ Ev.symbol \notin DOMAIN mesh_dict
    /\ Ev.symbol \notin TurtleSymbols

\* C15: an instruction whose symbol is neither a key of the
\* InstanceRegistry nor one of F f [ ] + - & ^ < > | emits no command,
\* raises no error, leaves position, heading and BranchStack as they are,
\* and the pass goes on behind the instruction's text.
C15_UnknownIsNoOp ==
    [][AboutUnknown =>
          /\ cmds' = cmds
          /\ pc' = "draw"
          /\ result' = result
          /\ Position' = Position
          /\ Heading' = Heading
          /\ BranchStack' = BranchStack
          /\ ri' = ri
          /\ index' = Cur.index + 1
          /\ Ev.symbol # <<>> => index' > index]_vars

\* P, unknown here, was passed over and the F behind it drew its line
C15_Witness ==
    /\ startStr = <<"P", "F">>
    /\ mesh_dict = NoMeshes
    /\ result = "ok"
    /\ ri = 1
    /\ cmds = <<Sphere(<<0, 0, 0>>), Line(<<0, 0, 0>>, <<0, step_length, 0>>)>>

-----------------------------------------------------------------------------
(* Claims about rotations *)

RotationSymbols ==
    { <<"+">>, <<"-">>, <<"&">>, <<"^">>, <<"<">>, <<">">>, <<"|">> }

\* v turned by a quarter turn, counter-clockwise seen from the tip of the
\* axis: 1 = pitch (X), 2 = roll (Y), 3 = yaw (Z)
QuarterTurn(v, axis) ==
    CASE axis = 1 -> <<v[1], 0 - v[3], v[2]>>
      [] axis = 2 -> <<v[3], v[2], 0 - v[1]>>
      [] axis = 3 -> <<0 - v[2], v[1], v[3]>>

\* v turned about the axis by angle, a multiple of 90 degrees in tenths
TurnedBy(v, axis, angle) ==
    LET q == (angle \div (90 * Scale)) % 4
    IN  CASE q = 0 -> v
          [] q = 1 -> QuarterTurn(v, axis)
          [] q = 2 -> QuarterTurn(QuarterTurn(v, axis), axis)
          [] q = 3 -> QuarterTurn(QuarterTurn(QuarterTurn(v, axis), axis), axis)

\* The heading a rotation symbol is to give
TurtleTurn(symbol, v, value) ==
    LET angle == IF value # None THEN value[1] ELSE default_angle
    IN  CASE symbol = <<"+">> -> TurnedBy(v, 3, angle)
          [] symbol = <<"-">> -> TurnedBy(v, 3, 0 - angle)
          [] symbol = <<"&">> -> TurnedBy(v, 1, angle)
          [] symbol = <<"^">> -> TurnedBy(v, 1, 0 - angle)
          [] symbol = <<"<">> -> TurnedBy(v, 2, angle)
          [] symbol = <<">">> -> TurnedBy(v, 2, 0 - angle)
          [] symbol = <<"|">> -> TurnedBy(v, 3, 180 * Scale)

OnlyHeadingTurns ==
    /\ cmds' = cmds
    /\ Position' = Position
    /\ BranchStack' = BranchStack
    /\ Heading' = TurtleTurn(Ev.symbol, Heading, Ev.value)

\* C16 as claimed: each rotation symbol changes only the heading, turning
\* it by the parameter or the default angle about its axis with its sign,
\* | by 180 degrees about the yaw axis whatever its parameter.
C16_RotationsTurnHeading ==
    [][(InLoopBody /\ Ev.err = "none" /\ Ev.symbol \in RotationSymbols)
          => OnlyHeadingTurns]_vars

OppositePairs ==
    { <<"+", "-">>, <<"&", "^">>, <<"<", ">">> }
QuarterAngles == {Some(0), Some(90 * Scale), Some(180 * Scale), Some(270 * Scale)}

\* Passes over these strings end with the heading they began with
CancellingStrings ==
    { <<"+", "-">>, <<"&", "^">>, <<"<", ">">>, <<"|", "|">>,
      <<"+", "(", "2", "7", "0", ")", "-", "(", "2", "7", "0", ")">>,
      <<"&", "(", "1", "8", "0", ")", "^", "(", "1", "8", "0", ")">>,
      <<"<", "(", "2", "7", "0", ")", ">", "(", "2", "7", "0", ")">>,
      <<"|", "(", "9", "0", ")", "|">> }

\* C16, amended: each rotation symbol that is no key of the
\* InstanceRegistry changes only the heading: + / - turn it about the yaw
\* axis by +angle / -angle, & / ^ about the pitch axis, < / > about the roll
\* axis, with angle the parameter if there is one (0 included), else the
\* default angle, and | by 180 degrees about the yaw axis whatever its
\* parameter.  So from every heading of a pass each opposite pair with one
\* angle cancels and | twice gives the heading back.
C16_RotationsTurnHeadingUnlessInstance ==
    /\ [][(InLoopBody /\ Ev.err = "none" /\ Ev.symbol \in RotationSymbols
           /\ Ev.symbol \notin DOMAIN mesh_dict) => OnlyHeadingTurns]_vars
    /\ [](pc = "draw" =>
             /\ \A pair \in OppositePairs, a \in QuarterAngles \cup {None} :
                    rotate_direction(<<pair[2]>>,
                        rotate_direction(<<pair[1]>>, Heading, a), a) = Heading
             /\ \A a, b \in QuarterAngles \cup {None} :
                    rotate_direction(<<"|">>,
                        rotate_direction(<<"|">>, Heading, a), b) = Heading)
    /\ []((result = "ok" /\ mesh_dict = NoMeshes /\ startStr \in CancellingStrings)
             => Heading = <<0, 1, 0>>)

\* +(270) then -(270) were interpreted and the heading is back
C16_Witness ==
    /\ result = "ok"
    /\ mesh_dict = NoMeshes
    /\ startStr = <<"+", "(", "2", "7", "0", ")", "-", "(", "2", "7", "0", ")">>
    /\ last = [symbol |-> <<"-">>, value |-> Some(270 * Scale), kind |-> "rotate"]
    /\ Heading = <<0, 1, 0>>

-----------------------------------------------------------------------------
(* Claims about the BranchStack *)

Shorter(a, b) == IF a <= b THEN a ELSE b

\* C17: every entry of the BranchStack is a snapshot of its own: [ pushes
\* the position and heading of that moment, no later instruction (f and
\* the rotations, which work in place, included) changes an entry that is
\* still on the stack, and ] makes the last entry the position and heading,
\* so that ] gives back the state of the matching [.
C17_SnapshotsIndependent ==
    /\ [][(pc = "draw" /\ pc' = "draw") =>
             \A k \in 1..Shorter(Len(stack), Len(stack')) :
                 BranchStack'[k] = BranchStack[k]]_vars
    /\ [][(About(<<"[">>) /\ <<"[">> \notin DOMAIN mesh_dict) =>
             /\ BranchStack' = Append(BranchStack, <<Position, Heading>>)
             /\ Position' = Position
             /\ Heading' = Heading]_vars
    /\ [][(About(<<"]">>) /\ <<"]">> \notin DOMAIN mesh_dict /\ stack # <<>>) =>
             /\ Position' = BranchStack[Len(stack)][1]
             /\ Heading' = BranchStack[Len(stack)][2]
             /\ BranchStack' = SubSeq(BranchStack, 1, Len(stack) - 1)]_vars

\* "[+" then "f]+": after [ the heading was turned and f moved the
\* position in place; ] has given back the origin and the first heading
C17_Witness ==
    /\ startStr = <<"[", "+">>
    /\ rules = CloseRules
    /\ mesh_dict = NoMeshes
    /\ ri = 2
    /\ last.kind = "pop"
    /\ pc = "draw"
    /\ Position = <<0, 0, 0>>
    /\ Heading = <<0, 1, 0>>

-----------------------------------------------------------------------------
(* Claims about generate() and the random stream *)

\* C18: the ProductionSequence is made once: whatever was called on the
\* object since its construction, generate() included, resultStrs has
\* numIters + 1 entries and is the sequence made at construction.
C18_ComputedOnce ==
    (pc = "idle" /\ numIters >= 0) =>
        /\ Len(resultStrs) = numIters + 1
        /\ resultStrs[1] = startStr
        /\ \A k \in 2..Len(resultStrs) : resultStrs[k] = Rewritten(resultStrs[k - 1])

\* The loop body is about to interpret symbol(a,b)
AboutRanged ==
    /\ InLoopBody
    /\ Match(Cur.instruction).ok
    /\ Match(Cur.instruction).g3 # <<>>
    /\ Ev.err = "none"

\* C19: no step of generate() changes the state of the random stream; the
\* strings it appends are rewritings of the string before, rule bodies
\* copied as they are, whatever the seed; a ranged parameter is resolved
\* when the pass parses it, each occurrence by a draw of its own.
C19_RewritingDrawsNothing ==
    /\ [][pc = "generate" => rng' = rng]_vars
    /\ [](\A k \in 2..Len(resultStrs) :
             \/ resultStrs[k] = Rewritten(resultStrs[k - 1])
             \/ resultStrs[k] = Rewritten(startStr))
    /\ []((rules = CloseRules /\ startStr[1] = "A" /\ Len(resultStrs) >= 2) =>
             SubSeq(resultStrs[2], 1, 7) = <<"F", "(", "1", ",", "3", ")", "P">>)
    /\ [][AboutRanged =>
             /\ Ev.value = Some(Uniform(FloatOf(Match(Cur.instruction).g2),
                                        FloatOf(Match(Cur.instruction).g3), rng))
             /\ last'.value = Ev.value
             /\ Ev.symbol \notin DOMAIN mesh_dict => rng' = RandomNext(rng)]_vars

\* "AF(1,3)" then "F(1,3)PF(1,3)": the F(1,3) of the start string and the
\* one copied from the rule body drew lines of different lengths
C19_Witness ==
    /\ startStr = <<"A", "F", "(", "1", ",", "3", ")">>
    /\ result = "ok"
    /\ Len(cmds) >= 3
    /\ cmds[2].op = "line"
    /\ cmds[3].op = "line"
    /\ cmds[2].b[2] - cmds[2].a[2] # cmds[3].b[2] - cmds[3].a[2]

\* C20: every drawing pass begins at the origin with heading (0, 1, 0) and
\* an empty BranchStack, whatever passes on the object came before, those
\* ended by an error and those that left entries on their stack included.
C20_PassStartsAfresh ==
    [][(pc = "idle" /\ pc' = "draw") =>
          /\ Position' = <<0, 0, 0>>
          /\ Heading' = <<0, 1, 0>>
          /\ BranchStack' = <<>>
          /\ cmds' = <<Sphere(<<0, 0, 0>>)>>
          /\ ri' = 1
          /\ index' = 0]_vars

\* The second pass over "[F", "[F" begins; the first left two entries
C20_Witness ==
    /\ calls = <<"draw", "draw">>
    /\ startStr = OpenStart
    /\ rules = NoRules
    /\ pc = "draw"
    /\ ri = 1
    /\ index = 0
    /\ stack = <<>>
    /\ Position = <<0, 0, 0>>

====
